---- MODULE Spec2Model ----
(***************************************************************************)
(* Model of gke_node_pool_observability.py: the polling pipeline           *)
(* main -> list_clusters_and_node_pools_info_and_send_metrics ->           *)
(* get_all_clusters_and_node_pools / get_node_pool_info ->                 *)
(* get_instance_group_node_count / send_metrics_to_newrelic, every one of  *)
(* the five functions decorated with tenacity's                            *)
(* @retry(stop_after_attempt, wait_fixed, retry_if_exception_type).        *)
(*                                                                         *)
(* Strings are sequences of tokens; the separators "," and "/" are tokens  *)
(* of their own, so str.split is modelled by what it does.  Optional       *)
(* values are <<>> (None / unset) or <<v>>.  Exceptions are sequences of   *)
(* kinds, outermost first: <<"RetryError", "ServiceUnavailable">> is a     *)
(* RetryError whose last attempt raised ServiceUnavailable.                *)
(***************************************************************************)
EXTENDS Integers, Sequences, FiniteSets, TLC

VARIABLES env, cfg, pc, cur, frames, orch, disc, pool, ev, err, fin, accepted, gave_up

vars == <<env, cfg, pc, cur, frames, orch, disc, pool, ev, err, fin, accepted, gave_up>>

----------------------------------------------------------------------------
(* Program constants *)

RETRY_ATTEMPTS == 5
RETRY_WAIT == 2

(* Bounds of the model *)

MaxGroups == 2
MaxInstances == 1
MaxSegments == 13

----------------------------------------------------------------------------
(* Values the environment and the remote services can produce *)

RECURSIVE SeqsUpTo(_, _)
SeqsUpTo(S, n) ==
    IF n = 0 THEN {<<>>}
    ELSE LET shorter == SeqsUpTo(S, n - 1)
         IN shorter \cup {Append(s, x) : s \in shorter, x \in S}

\* the environments of a run: GCP_PROJECT_IDS unset, "" and "a,b", with GCP_REGION
\* unset or "r"
Envs ==
    { [project_ids |-> <<>>, region |-> <<>>],
      [project_ids |-> << <<>> >>, region |-> << <<"r">> >>],
      [project_ids |-> << <<"a", ",", "b">> >>, region |-> <<>>] }

\* results of list_clusters and of list_node_pools: names in the order the API returns
\* them, which need not be sorted
ClusterLists == {<<>>, <<"c2">>, <<"c2", "c1">>}
PoolLists == {<<>>, <<"n2", "n1">>}

\* instance-group locators: 11 segments (well formed) and 10 segments
UrlOk == <<"https:", "/", "/", "www.googleapis.com", "/", "compute", "/", "v1", "/",
           "projects", "/", "p", "/", "zones", "/", "z", "/", "instanceGroups", "/", "g">>
UrlShort == <<"https:", "/", "/", "www.googleapis.com", "/", "compute", "/", "v1", "/",
              "projects", "/", "p", "/", "zones", "/", "z", "/", "instanceGroups">>
Urls == {UrlOk, UrlShort}
UrlLists == SeqsUpTo(Urls, MaxGroups)

\* autoscaling.max_node_count of a node pool (0: autoscaling disabled)
MaxNodeCounts == {0, 3}

\* the items of a list_instances response: None, or a list of instances
ItemLists == {<<>>} \cup {<< [i \in 1..n |-> "vm"] >> : n \in 0..MaxInstances}

\* failures of a remote call, and statuses of the ingestion endpoint
RemoteErrors == {<<"ServiceUnavailable">>, <<"DeadlineExceeded">>}
Statuses == {202, 403, 500}

Wrapped == {"orch", "disc", "pool", "ig", "send"}
RemoteOps == {"list_clusters", "list_node_pools", "get_node_pool", "list_instances",
              "send_batch"}

----------------------------------------------------------------------------
(* Pure functions *)

\* str.split(sep): the pieces between the separators, empty pieces kept
RECURSIVE SplitFrom(_, _, _, _, _)
SplitFrom(s, sep, i, piece, acc) ==
    IF i > Len(s) THEN Append(acc, piece)
    ELSE IF s[i] = sep THEN SplitFrom(s, sep, i + 1, <<>>, Append(acc, piece))
    ELSE SplitFrom(s, sep, i + 1, Append(piece, s[i]), acc)

Split(s, sep) == SplitFrom(s, sep, 1, <<>>, <<>>)

\* os.getenv(name, default)
Getenv(value, default) == IF value = <<>> THEN default ELSE value[1]

\* parts[i] with Python's 0-based index: <<>> stands for IndexError
PyIndex(parts, i) == IF i < Len(parts) THEN <<parts[i + 1]>> ELSE <<>>

\* project, zone, instance_group = parts[6], parts[8], parts[10]
ParseLocator(url) ==
    LET parts == Split(url, "/")
        project == PyIndex(parts, 6)
        zone == PyIndex(parts, 8)
        group == PyIndex(parts, 10)
    IN IF project = <<>> \/ zone = <<>> \/ group = <<>> THEN <<>>
       ELSE <<project[1], zone[1], group[1]>>

\* CountItems answering an absent listing with -1
CountItemsAbsentMinusOne(items) == IF items = <<>> THEN -1 ELSE Len(items[1])

\* len(response) if response else 0
CountItems(items) == IF items = <<>> THEN 0 ELSE IF Len(items[1]) = 0 THEN 0 ELSE Len(items[1])

RECURSIVE Gcd(_, _)
Gcd(a, b) == IF b = 0 THEN a ELSE Gcd(b, a % b)

\* a number as the fraction <<numerator, denominator>> in lowest terms
Fraction(n, d) == LET g == Gcd(n, d) IN <<n \div g, d \div g>>

\* a / b: <<>> stands for ZeroDivisionError
Divide(a, b) == IF b = 0 THEN <<>> ELSE Fraction(a, b)

\* q * k, an error staying an error
Times(q, k) == IF q = <<>> THEN <<>> ELSE Fraction(q[1] * k, q[2])

\* UsagePercent without its guard against max_node_count = 0
UsagePercentNoGuard(current, max) == Times(Divide(current, max), 100)

\* (current_node_count / max_node_count) * 100 if max_node_count else 0
UsagePercent(current, max) == IF max # 0 THEN Times(Divide(current, max), 100) ELSE <<0, 1>>

\* Accumulate keeping only the last group's count
AccumulateLast(total, count) == count

\* one step of sum(...) over the instance groups
Accumulate(total, count) == total + count

NodePoolInfo(current, max) ==
    [current_node_count |-> current,
     max_node_count |-> max,
     node_usage_percent |-> UsagePercent(current, max)]

Tags(project_id, region, cluster_name, node_pool_name) ==
    [project_id |-> project_id, region |-> region,
     cluster_name |-> cluster_name, node_pool_name |-> node_pool_name]

\* Metrics with the usage gauge carrying the maximum node count
MetricsUsageFromMax(info, tags) ==
    << [name |-> "gke.node_pool.current_node_count",
        value |-> <<info.current_node_count, 1>>, tags |-> tags],
       [name |-> "gke.node_pool.max_node_count",
        value |-> <<info.max_node_count, 1>>, tags |-> tags],
       [name |-> "gke.node_pool.node_usage_percent",
        value |-> <<info.max_node_count, 1>>, tags |-> tags] >>

Metrics(info, tags) ==
    << [name |-> "gke.node_pool.current_node_count",
        value |-> <<info.current_node_count, 1>>, tags |-> tags],
       [name |-> "gke.node_pool.max_node_count",
        value |-> <<info.max_node_count, 1>>, tags |-> tags],
       [name |-> "gke.node_pool.node_usage_percent",
        value |-> info.node_usage_percent, tags |-> tags] >>

\* response.raise_for_status(): an error unless the status is 2xx
\* RaiseForStatus raising for server errors only
RaiseForStatusServerOnly(status) == IF status >= 500 THEN <<"HTTPError">> ELSE <<>>

RaiseForStatus(status) == IF 200 <= status /\ status < 300 THEN <<>> ELSE <<"HTTPError">>

\* cluster_node_pools[key] = value on an insertion-ordered dict
DictSet(d, key, value) ==
    IF \E i \in 1..Len(d) : d[i].name = key
    THEN [i \in 1..Len(d) |-> IF d[i].name = key THEN [name |-> key, pools |-> value] ELSE d[i]]
    ELSE Append(d, [name |-> key, pools |-> value])

\* NextPos leaving out the last node pool of every cluster
RECURSIVE NextPosSkipLast(_, _, _)
NextPosSkipLast(cap, c, n) ==
    IF c > Len(cap) THEN <<>>
    ELSE IF n < Len(cap[c].pools) THEN <<c, n>>
    ELSE NextPosSkipLast(cap, c + 1, 1)

\* the next (cluster, node pool) of the nested for loops at or after (c, n)
RECURSIVE NextPos(_, _, _)
NextPos(cap, c, n) ==
    IF c > Len(cap) THEN <<>>
    ELSE IF n <= Len(cap[c].pools) THEN <<c, n>>
    ELSE NextPos(cap, c + 1, 1)

----------------------------------------------------------------------------
(* tenacity's retry decorator *)

\* ShouldStop giving up one attempt early, and one attempt late
ShouldStopEarly(attempt) == attempt >= RETRY_ATTEMPTS - 1
ShouldStopLate(attempt) == attempt > RETRY_ATTEMPTS

\* ShouldStop never giving up
ShouldStopNever(attempt) == FALSE

\* stop_after_attempt(RETRY_ATTEMPTS)
ShouldStop(attempt) == attempt >= RETRY_ATTEMPTS

\* Surface as with reraise=True: the last attempt's exception itself
SurfaceReraise(e) == e

\* what the caller of an exhausted call sees: RetryError(last attempt), since reraise is not set
Surface(e) == <<"RetryError">> \o e

\* the function whose body called w
Caller(w) ==
    CASE w = "disc" -> "orch"
      [] w = "pool" -> "orch"
      [] w = "send" -> "orch"
      [] w = "ig" -> "pool"
      [] OTHER -> "main"

\* BodyStart with a retry of the instance-group count starting the resolver's body again
BodyStartAtResolver(w) ==
    CASE w = "orch" -> "orch_body"
      [] w = "disc" -> "list_clusters"
      [] w = "pool" -> "get_node_pool"
      [] w = "ig" -> "get_node_pool"
      [] OTHER -> "send_batch"

\* where the body of w starts
BodyStart(w) ==
    CASE w = "orch" -> "orch_body"
      [] w = "disc" -> "list_clusters"
      [] w = "pool" -> "get_node_pool"
      [] w = "ig" -> "list_instances"
      [] OTHER -> "send_batch"

\* the retry state of a wrapped function that is not being called
IdleFrame ==
    [status |-> "idle", att |-> 0, inv |-> 0, fails |-> 0, waits |-> 0]

\* a call of a wrapped function: its first attempt starts
Call(f, w) == [f EXCEPT ![w] = [IdleFrame EXCEPT !.status = "running", !.att = 1, !.inv = 1]]

\* the call of w is over
Finish(f, w) == [f EXCEPT ![w] = IdleFrame]

\* the record of a call of w that returned v; obs is what its last attempt received
Returned(f, w, v, obs) ==
    [w |-> w, status |-> "returned", inv |-> f[w].inv, fails |-> f[w].fails,
     waits |-> f[w].waits, exc |-> <<>>, surfaced |-> <<>>, ret |-> <<v>>, obs |-> obs]

\* the record of a call of w that gave up when its last attempt raised e
Raised(f, w, e) ==
    [w |-> w, status |-> "raised", inv |-> f[w].inv, fails |-> f[w].fails,
     waits |-> f[w].waits, exc |-> e, surfaced |-> Surface(e), ret |-> <<>>, obs |-> <<>>]

\* an attempt of w raised e: w sleeps before its next attempt, or, out of attempts,
\* raises RetryError into its caller's attempt, and so on up to the top of the run;
\* fs are the calls that completed in this step so far
RECURSIVE Propagate(_, _, _, _)
Propagate(f, w, e, fs) ==
    LET f1 == [f EXCEPT ![w].fails = @ + 1]
    IN IF ShouldStop(f[w].att)
       THEN IF Caller(w) = "main"
            THEN [frames |-> Finish(f1, w), pc |-> "aborted", cur |-> "none",
                  fin |-> Append(fs, Raised(f1, w, e))]
            ELSE Propagate(Finish(f1, w), Caller(w), Surface(e), Append(fs, Raised(f1, w, e)))
       ELSE [frames |-> [f1 EXCEPT ![w].status = "sleeping"], pc |-> "sleep", cur |-> w,
             fin |-> fs]

----------------------------------------------------------------------------
(* State *)

OrchInit ==
    [metrics_client |-> FALSE, pi |-> 0, clusters_and_pools |-> <<>>, ci |-> 0, ni |-> 0,
     node_pool_info |-> <<>>]
DiscInit == [clusters |-> <<>>, cluster_node_pools |-> <<>>, k |-> 0, got |-> <<>>]
PoolInit == [urls |-> <<>>, max |-> 0, gi |-> 0, total |-> 0, counts |-> <<>>]

Event(op, arg) == [op |-> op, arg |-> arg]

Init ==
    /\ env \in Envs
    /\ cfg = [PROJECT_IDS |-> <<>>, REGION |-> <<>>]
    /\ pc = "main"
    /\ cur = "none"
    /\ frames = [w \in Wrapped |-> IdleFrame]
    /\ orch = OrchInit
    /\ disc = DiscInit
    /\ pool = PoolInit
    /\ ev = Event("init", <<>>)
    /\ err = <<>>
    /\ fin = <<>>
    /\ accepted = <<>>
    /\ gave_up = <<>>

\* the ingestion endpoint records one more accepted batch of node pool key, if it is one
\* of the node pools whose batches are counted
Accept(acc, key) == IF key \in DOMAIN acc THEN [acc EXCEPT ![key] = @ + 1] ELSE acc

\* get_node_pool_info has given up on node pool key, if it is one of the node pools for
\* which this is recorded
GiveUp(g, key) == IF key \in DOMAIN g THEN [g EXCEPT ![key] = TRUE] ELSE g

\* the current project, cluster and node pool of the orchestrator's loops
CurProject == cfg.PROJECT_IDS[orch.pi]
CurCluster == orch.clusters_and_pools[orch.ci].name
CurPool == orch.clusters_and_pools[orch.ci].pools[orch.ni]

ClustersParent(p, r) == <<"projects", p, "locations", r>>
PoolsParent(p, r, c) == <<"projects", p, "locations", r, "clusters", c>>
NodePoolPath(p, r, c, n) == <<"projects", p, "locations", r, "clusters", c, "nodePools", n>>

\* ParseProjectIds without the test for the empty string
ParseProjectIdsNoGuard(s) == Split(s, ",")

\* PROJECT_IDS_STR.split(",") if PROJECT_IDS_STR else []
ParseProjectIds(s) == IF s # <<>> THEN Split(s, ",") ELSE <<>>

\* MoreClusters leaving the loop one cluster early
MoreClustersEarly(k, clusters) == k < Len(clusters) - 1

\* the for loop over clusters has another cluster after the k-th
MoreClusters(k, clusters) == k < Len(clusters)

----------------------------------------------------------------------------
(* Continuations *)

\* an attempt of w raised e; the locals of every attempt that ended are gone
RaiseFrom(f, w, e, fs) ==
    LET r == Propagate(f, w, e, fs)
        ended(x) == frames[x].status # "idle" /\ (r.frames[x].status # "running")
    IN /\ frames' = r.frames
       /\ err' = e
       /\ gave_up' = IF \E i \in 1..Len(r.fin) : r.fin[i].w = "pool"
                     THEN GiveUp(gave_up, <<CurProject, CurCluster, CurPool>>)
                     ELSE gave_up
       /\ pc' = r.pc
       /\ cur' = r.cur
       /\ fin' = r.fin
       /\ orch' = IF ended("orch") THEN OrchInit ELSE orch
       /\ disc' = IF ended("disc") THEN DiscInit ELSE disc
       /\ pool' = IF ended("pool") THEN PoolInit ELSE pool

Raise(w, e) == RaiseFrom(frames, w, e, <<>>)

\* the orchestrator's loops continue at (c, n) of the current project's mapping;
\* fs are the calls that completed in this step so far
OrchStep(f, o, c, n, fs) ==
    LET pos == NextPos(o.clusters_and_pools, c, n)
    IN /\ err' = <<>>
       /\ UNCHANGED gave_up
       /\ IF pos # <<>>
          THEN /\ orch' = [o EXCEPT !.ci = pos[1], !.ni = pos[2]]
               /\ frames' = Call(f, "pool")
               /\ fin' = fs
               /\ pc' = "get_node_pool"
          ELSE IF o.pi < Len(cfg.PROJECT_IDS)
          THEN /\ orch' = [o EXCEPT !.pi = @ + 1, !.ci = 0, !.ni = 0]
               /\ frames' = Call(f, "disc")
               /\ fin' = fs
               /\ pc' = "list_clusters"
          ELSE /\ orch' = OrchInit
               /\ frames' = Finish(f, "orch")
               /\ fin' = Append(fs, Returned(f, "orch", "None", <<>>))
               /\ pc' = "done"

\* the resolver's sum continues at instance group g, or the resolver returns
PoolStep(f, p, g, fs) ==
    IF g <= Len(p.urls)
    THEN /\ pool' = [p EXCEPT !.gi = g]
         /\ frames' = Call(f, "ig")
         /\ fin' = fs
         /\ pc' = "list_instances"
         /\ err' = <<>>
         /\ UNCHANGED <<orch, disc, cur, gave_up>>
    ELSE LET info == NodePoolInfo(p.total, p.max)
         IN IF info.node_usage_percent = <<>>
            THEN RaiseFrom(f, "pool", <<"ZeroDivisionError">>, fs)
            ELSE /\ pool' = PoolInit
                 /\ orch' = [orch EXCEPT !.node_pool_info = <<info>>]
                 /\ frames' = Call(Finish(f, "pool"), "send")
                 /\ fin' = Append(fs, Returned(f, "pool", info, <<p.urls, p.max, p.counts>>))
                 /\ pc' = "send_batch"
                 /\ err' = <<>>
                 /\ UNCHANGED <<disc, cur, gave_up>>

----------------------------------------------------------------------------
(* Actions *)

\* the __main__ block
Main ==
    /\ pc = "main"
    /\ LET PROJECT_IDS_STR == Getenv(env.project_ids, <<>>)
           REGION == Getenv(env.region, <<"us-central1">>)
           PROJECT_IDS == ParseProjectIds(PROJECT_IDS_STR)
       IN /\ cfg' = [PROJECT_IDS |-> PROJECT_IDS, REGION |-> REGION]
          /\ IF PROJECT_IDS = <<>>
             THEN /\ pc' = "exit_no_projects"
                  /\ ev' = Event("print_no_project_ids", <<>>)
                  /\ UNCHANGED frames
             ELSE /\ pc' = "orch_body"
                  /\ ev' = Event("main", <<>>)
                  /\ frames' = Call(frames, "orch")
    /\ UNCHANGED <<env, cur, orch, disc, pool, err, fin, accepted, gave_up>>

\* an attempt of the orchestrator starts: MetricClient(...), then the first project
OrchBody ==
    /\ pc = "orch_body"
    /\ ev' = Event("MetricClient", <<>>)
    /\ OrchStep(frames, [OrchInit EXCEPT !.metrics_client = TRUE], 1, 1, <<>>)
    /\ UNCHANGED <<env, cfg, cur, disc, pool, accepted>>

\* client.list_clusters(parent=...).clusters
ListClusters ==
    /\ pc = "list_clusters"
    /\ ev' = Event("list_clusters", ClustersParent(CurProject, cfg.REGION))
    /\ \/ \E e \in RemoteErrors : Raise("disc", e)
       \/ \E clusters \in ClusterLists :
            /\ IF clusters = <<>>
               THEN /\ disc' = DiscInit
                    /\ OrchStep(Finish(frames, "disc"),
                                [orch EXCEPT !.clusters_and_pools = <<>>], 1, 1,
                                <<Returned(frames, "disc", <<>>, <<clusters, <<>> >>)>>)
               ELSE /\ disc' = [clusters |-> clusters, cluster_node_pools |-> <<>>,
                                k |-> 1, got |-> <<>>]
                    /\ pc' = "list_node_pools"
                    /\ fin' = <<>>
                    /\ err' = <<>>
                    /\ UNCHANGED <<frames, orch, gave_up>>
            /\ UNCHANGED <<cur, pool>>
    /\ UNCHANGED <<env, cfg, accepted>>

\* client.list_node_pools(parent=...).node_pools for the k-th cluster
ListNodePools ==
    /\ pc = "list_node_pools"
    /\ ev' = Event("list_node_pools",
                   PoolsParent(CurProject, cfg.REGION, disc.clusters[disc.k]))
    /\ \/ \E e \in RemoteErrors : Raise("disc", e)
       \/ \E node_pools \in PoolLists :
            LET mapping == DictSet(disc.cluster_node_pools, disc.clusters[disc.k], node_pools)
                got == Append(disc.got, node_pools)
            IN /\ IF MoreClusters(disc.k, disc.clusters)
                  THEN /\ disc' = [disc EXCEPT !.cluster_node_pools = mapping, !.k = @ + 1,
                                               !.got = got]
                       /\ fin' = <<>>
                       /\ err' = <<>>
                       /\ UNCHANGED <<pc, frames, orch, gave_up>>
                  ELSE /\ disc' = DiscInit
                       /\ OrchStep(Finish(frames, "disc"),
                                   [orch EXCEPT !.clusters_and_pools = mapping], 1, 1,
                                   <<Returned(frames, "disc", mapping, <<disc.clusters, got>>)>>)
               /\ UNCHANGED <<cur, pool>>
    /\ UNCHANGED <<env, cfg, accepted>>

\* client.get_node_pool(name=node_pool_path), then the sum over its instance groups starts
GetNodePool ==
    /\ pc = "get_node_pool"
    /\ ev' = Event("get_node_pool",
                   NodePoolPath(CurProject, cfg.REGION, CurCluster, CurPool))
    /\ \/ \E e \in RemoteErrors : Raise("pool", e)
       \/ \E urls \in UrlLists, max \in MaxNodeCounts :
            PoolStep(frames, [PoolInit EXCEPT !.urls = urls, !.max = max], 1, <<>>)
    /\ UNCHANGED <<env, cfg, accepted>>

\* an attempt of get_instance_group_node_count: split the locator, then
\* client.list_instances(project, zone, instance_group).items
ListInstances ==
    /\ pc = "list_instances"
    /\ LET args == ParseLocator(pool.urls[pool.gi])
       IN IF args = <<>>
          THEN /\ ev' = Event("split", <<>>)
               /\ Raise("ig", <<"IndexError">>)
          ELSE /\ ev' = Event("list_instances", args)
               /\ \/ \E e \in RemoteErrors : Raise("ig", e)
                  \/ \E items \in ItemLists :
                       LET count == CountItems(items)
                       IN PoolStep(Finish(frames, "ig"),
                                   [pool EXCEPT !.total = Accumulate(@, count),
                                                !.counts = Append(@, count)],
                                   pool.gi + 1,
                                   <<Returned(frames, "ig", count, <<items>>)>>)
    /\ UNCHANGED <<env, cfg, accepted>>

\* an attempt of send_metrics_to_newrelic:
\* metrics_client.send_batch(metrics); response.raise_for_status()
SendBatch ==
    /\ pc = "send_batch"
    /\ LET tags == Tags(CurProject, cfg.REGION, CurCluster, CurPool)
           metrics == Metrics(orch.node_pool_info[1], tags)
       IN ev' = Event("send_batch",
                      <<metrics, <<CurProject, cfg.REGION, CurCluster, CurPool>>,
                        orch.node_pool_info[1]>>)
    /\ \/ \E e \in RemoteErrors : Raise("send", e) /\ UNCHANGED accepted
       \/ \E status \in Statuses :
            IF RaiseForStatus(status) # <<>>
            THEN Raise("send", RaiseForStatus(status)) /\ UNCHANGED accepted
            ELSE /\ accepted' = Accept(accepted, <<CurProject, CurCluster, CurPool>>)
                 /\ OrchStep(Finish(frames, "send"),
                             [orch EXCEPT !.node_pool_info = <<>>], orch.ci, orch.ni + 1,
                             <<Returned(frames, "send", "None", <<status>>)>>)
                 /\ UNCHANGED <<cur, disc, pool>>
    /\ UNCHANGED <<env, cfg>>

\* time.sleep(RETRY_WAIT), then the next attempt of cur starts its body
Wait ==
    /\ pc = "sleep"
    /\ ev' = Event("sleep", <<cur, RETRY_WAIT>>)
    /\ frames' = [frames EXCEPT ![cur].status = "running", ![cur].att = @ + 1,
                                ![cur].inv = @ + 1, ![cur].waits = @ + 1]
    /\ pc' = BodyStart(cur)
    /\ cur' = "none"
    /\ fin' = <<>>
    /\ err' = <<>>
    /\ UNCHANGED <<env, cfg, orch, disc, pool, accepted, gave_up>>

Next ==
    \/ Main
    \/ OrchBody
    \/ ListClusters
    \/ ListNodePools
    \/ GetNodePool
    \/ ListInstances
    \/ SendBatch
    \/ Wait

Spec == Init /\ [][Next]_vars

----------------------------------------------------------------------------
(* get_instance_group_node_count on locators of any depth *)

\* the i-th '/'-separated segment of the locators tried
Segment(i) ==
    CASE i = 1 -> "https:"
      [] i = 3 -> "www.googleapis.com"
      [] i = 4 -> "compute"
      [] i = 5 -> "v1"
      [] i = 6 -> "projects"
      [] i = 7 -> "p"
      [] i = 8 -> "zones"
      [] i = 9 -> "z"
      [] i = 10 -> "instanceGroups"
      [] i = 11 -> "g"
      [] OTHER -> "x"

\* the locator of n segments; its second segment is empty ("https://...")
RECURSIVE Locator(_)
Locator(n) ==
    IF n = 0 THEN <<>>
    ELSE IF n = 1 THEN <<Segment(1)>>
    ELSE IF n = 2 THEN <<Segment(1), "/">>
    ELSE Locator(n - 1) \o <<"/", Segment(n)>>

Locators == {Locator(n) : n \in 0..MaxSegments}

\* get_node_pool_info has just received a node pool with one instance group, of any
\* locator, and calls get_instance_group_node_count on it
LocatorInit ==
    /\ env = [project_ids |-> << <<"a">> >>, region |-> <<>>]
    /\ cfg = [PROJECT_IDS |-> << <<"a">> >>, REGION |-> <<"us-central1">>]
    /\ pc = "list_instances"
    /\ cur = "none"
    /\ frames = Call(Call(Call([w \in Wrapped |-> IdleFrame], "orch"), "pool"), "ig")
    /\ orch = [OrchInit EXCEPT !.metrics_client = TRUE, !.pi = 1, !.ci = 1, !.ni = 1,
                               !.clusters_and_pools = <<[name |-> "c1", pools |-> <<"n1">>]>>]
    /\ disc = DiscInit
    /\ \E url \in Locators, max \in MaxNodeCounts :
          pool = [PoolInit EXCEPT !.urls = <<url>>, !.max = max, !.gi = 1]
    /\ ev = Event("get_node_pool", NodePoolPath(<<"a">>, <<"us-central1">>, "c1", "n1"))
    /\ err = <<>>
    /\ fin = <<>>
    /\ accepted = <<>>
    /\ gave_up = <<>>

\* the attempts of get_instance_group_node_count and the waits between them
LocatorNext ==
    \/ ListInstances
    \/ Wait

LocatorSpec == LocatorInit /\ [][LocatorNext]_vars

----------------------------------------------------------------------------
(* A run on one project whose accepted batches the ingestion endpoint counts *)

\* the node pools whose accepted batches and given-up resolutions are recorded,
\* <<project, cluster, node pool>>: the first node pool of a run, n2 of cluster c2
PoolKeys == {<< <<"a">>, "c2", "n2" >>}

\* GCP_PROJECT_IDS is "a"; no batch has been accepted and no resolution has given up yet
EndpointInit ==
    /\ env = [project_ids |-> << <<"a">> >>, region |-> <<>>]
    /\ cfg = [PROJECT_IDS |-> <<>>, REGION |-> <<>>]
    /\ pc = "main"
    /\ cur = "none"
    /\ frames = [w \in Wrapped |-> IdleFrame]
    /\ orch = OrchInit
    /\ disc = DiscInit
    /\ pool = PoolInit
    /\ ev = Event("init", <<>>)
    /\ err = <<>>
    /\ fin = <<>>
    /\ accepted = [k \in PoolKeys |-> 0]
    /\ gave_up = [k \in PoolKeys |-> FALSE]

EndpointSpec == EndpointInit /\ [][Next]_vars

----------------------------------------------------------------------------
(* Properties *)

\* the wrapped calls that completed in the last step
Completed == {fin[i] : i \in 1..Len(fin)}

RECURSIVE SumSeq(_)
SumSeq(q) == IF q = <<>> THEN 0 ELSE Head(q) + SumSeq(Tail(q))

\* the mapping a discovery attempt builds from a listing of distinct clusters
ExpectedMapping(clusters, lists) ==
    [i \in 1..Len(clusters) |-> [name |-> clusters[i], pools |-> lists[i]]]

\* C1: a wrapped call whose body fails k < 5 times and then succeeds returns the
\* success value after exactly k + 1 invocations of the body; it never gives up
\* while fewer than 5 attempts have failed.
C1_SuccessAfterKFailures ==
    \A r \in Completed :
        /\ r.status = "returned" =>
              /\ r.fails < RETRY_ATTEMPTS
              /\ r.inv = r.fails + 1
              /\ r.ret # <<>>
              /\ r.surfaced = <<>>
              /\ (r.w = "disc" /\ frames["orch"].status = "running") =>
                    orch.clusters_and_pools = r.ret[1]
              /\ r.w = "pool" => orch.node_pool_info = r.ret
        /\ r.status = "raised" => r.fails >= RETRY_ATTEMPTS

C1_Witness ==
    \E r \in Completed :
        r.w = "ig" /\ r.status = "returned" /\ r.fails = 4 /\ r.inv = 5 /\ r.ret = <<1>>

\* C2: a wrapped call whose body always fails invokes the body exactly 5 times and
\* then surfaces a failure to its caller instead of returning a value.
C2_ExactlyFiveAttempts ==
    /\ \A r \in Completed :
          r.status = "raised" =>
              /\ r.inv = RETRY_ATTEMPTS
              /\ r.fails = RETRY_ATTEMPTS
              /\ r.ret = <<>>
              /\ r.surfaced # <<>>
              /\ pc \in {"sleep", "aborted"}
    /\ \A w \in Wrapped :
          /\ frames[w].inv <= RETRY_ATTEMPTS
          /\ frames[w].status # "idle" => frames[w].fails < RETRY_ATTEMPTS

C2_Witness ==
    \E r \in Completed :
        r.w = "send" /\ r.status = "raised" /\ r.inv = 5 /\ r.exc = <<"HTTPError">>

\* C3: the orchestrator aborts the run on the first unrecovered failure: once a
\* discovery, resolution or emission call has exhausted its retries, no further
\* metric batch is submitted in the run.
C3_AbortsOnFirstUnrecoveredFailure ==
    (frames["orch"].fails > 0 /\ frames["orch"].status = "running") => ev.op # "send_batch"

\* C4: a remote call is attempted at most 5 times in a run: when the 5 attempts of a
\* wrapped call are exhausted the run is aborted, and no remote call is made by an
\* orchestrator that has seen such a failure.
C4_ExhaustionIsFatal ==
    /\ \A r \in Completed : r.status = "raised" => pc = "aborted"
    /\ (frames["orch"].fails > 0 /\ frames["orch"].status = "running") => ev.op \notin RemoteOps

\* C5: the failure the caller of an exhausted call observes is the failure raised by
\* the last attempt, unchanged (same kind, not wrapped).
C5_FinalFailureUnchanged ==
    \A r \in Completed : r.status = "raised" => r.surfaced = r.exc

\* What the decorators do in the case of C5: the caller of an exhausted call observes a
\* RetryError that wraps the failure raised by the last attempt: the innermost exhausted
\* call wraps the exception its last attempt raised, and each caller's attempt fails
\* with what its callee surfaced.
C5_FinalFailureWrapped ==
    \A i \in 1..Len(fin) :
        fin[i].status = "raised" =>
            /\ fin[i].surfaced = <<"RetryError">> \o fin[i].exc
            /\ fin[i].exc = IF i > 1 /\ fin[i - 1].status = "raised"
                            THEN fin[i - 1].surfaced ELSE err

C5_Witness ==
    \E r \in Completed :
        /\ r.w = "ig" /\ r.status = "raised" /\ r.exc = <<"DeadlineExceeded">>
        /\ r.surfaced = <<"RetryError", "DeadlineExceeded">>

\* C6: with GCP_PROJECT_IDS unset or empty the process constructs no metrics client and
\* makes no remote call, reports the missing configuration and ends without error.
C6_NoProjectsNoRemoteCalls ==
    (env.project_ids = <<>> \/ env.project_ids = << <<>> >>) =>
        /\ pc \in {"main", "exit_no_projects"}
        /\ \A w \in Wrapped : frames[w] = IdleFrame
        /\ ~orch.metrics_client
        /\ ev.op \in {"init", "print_no_project_ids"}
        /\ pc = "exit_no_projects" => ev.op = "print_no_project_ids" /\ err = <<>>

C6_Witness == pc = "exit_no_projects" /\ env.project_ids = <<>> /\ cfg.PROJECT_IDS = <<>>

\* C7: discovery retries as a whole: a failed attempt leaves nothing behind and the next
\* attempt starts at list_clusters; the mapping returned holds exactly the node pools
\* listed in the successful attempt, one listing per cluster; an exhausted discovery
\* returns no mapping.
C7_DiscoveryRetriesAsAWhole ==
    /\ (ev.op \in {"list_clusters", "list_node_pools"} /\ err # <<>>) =>
          disc = DiscInit /\ pc \in {"sleep", "aborted"}
    /\ (ev.op = "sleep" /\ ev.arg[1] = "disc") => pc = "list_clusters" /\ disc = DiscInit
    /\ pc = "list_node_pools" =>
          /\ disc.k = Len(disc.got) + 1
          /\ disc.k <= Len(disc.clusters)
          /\ disc.cluster_node_pools =
                ExpectedMapping(SubSeq(disc.clusters, 1, disc.k - 1), disc.got)
    /\ \A r \in Completed :
          r.w = "disc" =>
              IF r.status = "returned"
              THEN /\ Len(r.obs[2]) = Len(r.obs[1])
                   /\ r.ret[1] = ExpectedMapping(r.obs[1], r.obs[2])
              ELSE r.ret = <<>>

C7_Witness ==
    \E r \in Completed :
        /\ r.w = "disc" /\ r.status = "returned" /\ r.fails = 2
        /\ r.obs = << <<"c2", "c1">>, << <<"n2", "n1">>, <<>> >> >>

\* C8: a successful resolution returns as currentNodeCount the sum of the instance
\* counts of all the instance groups of the node pool; with no instance group it
\* returns 0 and a usage of 0.
C8_CurrentIsSumOverGroups ==
    /\ frames["pool"].status # "idle" =>
          pool.total = SumSeq(pool.counts) /\ Len(pool.counts) <= Len(pool.urls)
    /\ \A i \in 1..Len(fin) :
          /\ (fin[i].w = "ig" /\ fin[i].status = "returned") =>
                LET counts == IF i < Len(fin) THEN fin[i + 1].obs[3] ELSE pool.counts
                IN counts # <<>> /\ counts[Len(counts)] = fin[i].ret[1]
          /\ (fin[i].w = "pool" /\ fin[i].status = "returned") =>
                LET urls == fin[i].obs[1]
                    counts == fin[i].obs[3]
                    info == fin[i].ret[1]
                IN /\ Len(counts) = Len(urls)
                   /\ info.current_node_count = SumSeq(counts)
                   /\ urls = <<>> =>
                         info.current_node_count = 0 /\ info.node_usage_percent = <<0, 1>>

C8_Witness ==
    \E r \in Completed :
        /\ r.w = "pool" /\ r.status = "returned"
        /\ r.obs = << <<UrlOk, UrlOk>>, 3, <<1, 1>> >>
        /\ r.ret[1] = [current_node_count |-> 2, max_node_count |-> 3,
                       node_usage_percent |-> <<200, 3>>]

C10_BatchOfThreeGauges ==
    ev.op = "send_batch" =>
        LET metrics == ev.arg[1]
            at == ev.arg[2]
            info == ev.arg[3]
            tags == [project_id |-> at[1], region |-> at[2], cluster_name |-> at[3],
                     node_pool_name |-> at[4]]
        IN /\ Len(metrics) = 3
           /\ \A i \in 1..3 : metrics[i].tags = tags
           /\ metrics[1].name = "gke.node_pool.current_node_count"
           /\ metrics[1].value = <<info.current_node_count, 1>>
           /\ metrics[2].name = "gke.node_pool.max_node_count"
           /\ metrics[2].value = <<info.max_node_count, 1>>
           /\ metrics[3].name = "gke.node_pool.node_usage_percent"
           /\ metrics[3].value = info.node_usage_percent
           /\ at[2] = cfg.REGION
           /\ frames["send"].status = "sleeping" =>
                 /\ at = <<CurProject, cfg.REGION, CurCluster, CurPool>>
                 /\ orch.node_pool_info = <<info>>
           /\ \A r \in Completed :
                 r.w = "pool" => r.status = "returned" /\ r.ret = <<info>>

C10_Witness ==
    /\ ev.op = "send_batch"
    /\ ev.arg[2] = << <<"b">>, <<"us-central1">>, "c1", "n1" >>
    /\ ev.arg[3].current_node_count = 2
    /\ ev.arg[3].max_node_count = 3

\* C11: a response of the ingestion endpoint whose status is not a success status fails
\* the emission attempt: the attempt does not return, the call sleeps and submits the
\* same batch again, or gives up once RETRY_ATTEMPTS attempts have failed; an emission
\* returns only on a success status.
C11_NonSuccessStatusFailsAttempt ==
    /\ [](/\ (ev.op = "send_batch" /\ err = <<"HTTPError">>) =>
                /\ \A r \in Completed : r.status = "raised"
                /\ IF frames["send"].status = "sleeping"
                   THEN /\ pc = "sleep" /\ cur = "send"
                        /\ frames["send"].fails < RETRY_ATTEMPTS
                        /\ ev.arg[1] = Metrics(orch.node_pool_info[1],
                                               Tags(CurProject, cfg.REGION, CurCluster, CurPool))
                   ELSE /\ fin # <<>>
                        /\ fin[1].w = "send" /\ fin[1].fails = RETRY_ATTEMPTS
          /\ \A r \in Completed :
                (r.w = "send" /\ r.status = "returned") =>
                    200 <= r.obs[1] /\ r.obs[1] < 300)
    /\ [][(pc = "sleep" /\ cur = "send") =>
             (pc' = "send_batch" /\ orch' = orch /\ cfg' = cfg)]_vars

C11_Witness ==
    /\ ev.op = "send_batch" /\ err = <<"HTTPError">>
    /\ frames["send"].status = "sleeping" /\ frames["send"].fails = 2

\* positions <<cluster index, node pool index>> of a mapping, in traversal order
LexBefore(a, b) == a[1] < b[1] \/ (a[1] = b[1] /\ a[2] < b[2])
PoolAt(cap, c, n) == c \in 1..Len(cap) /\ n \in 1..Len(cap[c].pools)
NoPoolBetween(cap, lo, hi) ==
    \A c \in 1..Len(cap) : \A n \in 1..Len(cap[c].pools) :
        ~(LexBefore(lo, <<c, n>>) /\ LexBefore(<<c, n>>, hi))
NoPoolAfter(cap, lo) ==
    \A c \in 1..Len(cap) : \A n \in 1..Len(cap[c].pools) : ~LexBefore(lo, <<c, n>>)

\* the step completed an emission, a discovery
SendReturned == \E r \in Completed : r.w = "send" /\ r.status = "returned"
DiscReturned == \E r \in Completed : r.w = "disc" /\ r.status = "returned"
DiscMapping == (CHOOSE r \in Completed : r.w = "disc" /\ r.status = "returned").ret[1]

Depth == Len(Split(pool.urls[pool.gi], "/"))

\* C13: the resolution of a locator whose number of segments differs from the expected
\* depth of 11, too few or too many, fails with a parsing error and makes no
\* list_instances call.
C13_WrongDepthFailsToParse ==
    [][(pc = "list_instances" /\ Depth # 11) =>
          (ev'.op # "list_instances" /\ err' = <<"IndexError">>)]_vars

\* C14: a malformed locator fails fast: get_instance_group_node_count surfaces the
\* parsing error after a single attempt, without a retry and without a wait.
C14_MalformedLocatorFailsFast ==
    /\ err = <<"IndexError">> => frames["ig"].status # "sleeping"
    /\ \A r \in Completed :
          (r.w = "ig" /\ r.status = "raised" /\ r.exc = <<"IndexError">>) =>
              r.inv = 1 /\ r.waits = 0

\* the run is over: all projects processed, aborted by an exception at the top of the
\* script, or ended for want of project ids
Terminated == pc \in {"done", "aborted", "exit_no_projects"}

\* what is left of the retry loop of w: twice the attempts left, a running attempt
\* counting for more than the wait that follows it
AttemptsLeft(w) ==
    IF frames[w].status = "running" THEN 2 * (RETRY_ATTEMPTS - frames[w].att) + 1
    ELSE IF frames[w].status = "sleeping" THEN 2 * (RETRY_ATTEMPTS - frames[w].att)
    ELSE 0

\* what is left of the run, outermost loop first
Rank ==
    << IF pc = "main" THEN 2 ELSE IF Terminated THEN 0 ELSE 1,
       AttemptsLeft("orch"),
       Len(cfg.PROJECT_IDS) - orch.pi,
       IF frames["disc"].status # "idle" THEN 1 ELSE 0,
       AttemptsLeft("disc"),
       IF frames["disc"].status = "running" /\ disc.k = 0 THEN 1 ELSE 0,
       IF disc.k = 0 THEN 0 ELSE Len(disc.clusters) - disc.k,
       IF orch.ci = 0 THEN 0 ELSE Len(orch.clusters_and_pools) - orch.ci,
       IF orch.ci = 0 THEN 0 ELSE Len(orch.clusters_and_pools[orch.ci].pools) - orch.ni,
       IF frames["pool"].status # "idle" THEN 1 ELSE 0,
       AttemptsLeft("pool"),
       IF frames["pool"].status = "running" /\ pool.gi = 0 THEN 1 ELSE 0,
       IF pool.gi = 0 THEN 0 ELSE Len(pool.urls) - pool.gi,
       AttemptsLeft("ig"),
       AttemptsLeft("send") >>

LexLess(a, b) ==
    \E i \in 1..Len(a) : a[i] < b[i] /\ \A j \in 1..(i - 1) : a[j] = b[j]

\* the run is at a statement of the script: pc is the label of an action, whose only
\* guard it is, and a wait is a wait of the call that sleeps
AtAStep ==
    /\ pc \in {"main", "orch_body", "list_clusters", "list_node_pools", "get_node_pool",
               "list_instances", "send_batch", "sleep"}
    /\ pc = "sleep" => cur \in Wrapped /\ frames[cur].status = "sleeping"

\* a run that is not over can take a step
NeverStuck == ~Terminated => ENABLED Next

\* C15: every run terminates: a run that is not over (done, aborted, or ended at once
\* for want of project ids) is at a step it can take, and every step takes what is left of
\* the run, a tuple of natural numbers bounded by the attempt ceiling and by the finite
\* lists, down in lexicographic order; so no run takes infinitely many steps, and a run
\* stops only when it is over.
C15_RunTerminates ==
    /\ [](~Terminated => AtAStep)
    /\ [][\E after \in {Rank'}, before \in {Rank} :
             /\ LexLess(after, before)
             /\ \A i \in 1..Len(after) : after[i] >= 0]_vars

C15_Witness ==
    /\ pc = "aborted"
    /\ \E r \in Completed : r.w = "orch" /\ r.status = "raised" /\ r.inv = RETRY_ATTEMPTS

\* C16: get_instance_group_node_count returns the number of instances of the listing it
\* received, and 0, a number, when the listing is empty or absent (None).
C16_CountOfListing ==
    \A r \in Completed :
        (r.w = "ig" /\ r.status = "returned") =>
            LET items == r.obs[1]
            IN /\ r.ret[1] \in Nat
               /\ items = <<>> => r.ret[1] = 0
               /\ items # <<>> => r.ret[1] = Len(items[1])
               /\ items = << <<>> >> => r.ret[1] = 0

\* the listing was absent and the count returned is 0
C16_Witness ==
    \E r \in Completed :
        r.w = "ig" /\ r.status = "returned" /\ r.obs = << <<>> >> /\ r.ret = <<0>>

\* C17: the count of each instance group is retried on its own: a failed attempt of
\* get_instance_group_node_count and the wait after it leave the resolver's attempt and
\* the counts of the groups already listed as they are, the next attempt calls
\* list_instances for the same group, and when it succeeds its count is added to the
\* counts so far; get_node_pool is not called again.
C17_GroupRetriedAlone ==
    [][/\ (pc = "sleep" /\ cur = "ig") =>
             /\ pc' = "list_instances"
             /\ pool' = pool
             /\ frames'["pool"] = frames["pool"]
             /\ frames'["ig"].inv = frames["ig"].inv + 1
       /\ (frames["ig"].status = "running" /\ frames'["ig"].status = "sleeping") =>
             /\ pool' = pool
             /\ frames'["pool"] = frames["pool"]
             /\ ev'.op \in {"list_instances", "split"}
       /\ \A i \in 1..Len(fin') :
             (fin'[i].w = "ig" /\ fin'[i].status = "returned") =>
                 /\ ev'.op = "list_instances"
                 /\ ev'.arg = ParseLocator(pool.urls[pool.gi])
                 /\ IF frames'["pool"].status = "running"
                    THEN /\ frames'["pool"] = frames["pool"]
                         /\ pool'.urls = pool.urls
                         /\ pool'.counts = Append(pool.counts, fin'[i].ret[1])
                         /\ pool'.gi = pool.gi + 1
                    ELSE /\ i < Len(fin')
                         /\ fin'[i + 1].w = "pool" /\ fin'[i + 1].status = "returned"
                         /\ fin'[i + 1].inv = frames["pool"].inv
                         /\ fin'[i + 1].obs[1] = pool.urls
                         /\ fin'[i + 1].obs[3] = Append(pool.counts, fin'[i].ret[1])]_vars

\* the second group of a node pool is counted on the fourth attempt, after the first
\* group was counted, in the resolver's first attempt
C17_Witness ==
    /\ Len(fin) = 2
    /\ fin[1].w = "ig" /\ fin[1].status = "returned" /\ fin[1].fails = 3 /\ fin[1].ret = <<0>>
    /\ fin[2].w = "pool" /\ fin[2].status = "returned" /\ fin[2].inv = 1
    /\ fin[2].obs[3] = <<1, 0>>

\* C18: the fixed wait happens only between two attempts of the same wrapped call: a
\* call that made n attempts made n - 1 waits; a call waits only after a failed attempt
\* that is not its last, never before its first attempt or after a success, and every
\* wait lasts RETRY_WAIT and is followed by the next attempt of the call that waited.
C18_WaitsBetweenAttempts ==
    /\ \A r \in Completed : r.waits = r.inv - 1
    /\ \A w \in Wrapped :
          /\ frames[w].status # "idle" =>
                frames[w].inv = frames[w].att /\ frames[w].waits = frames[w].inv - 1
          /\ frames[w].status = "sleeping" =>
                /\ pc = "sleep" /\ cur = w
                /\ err # <<>>
                /\ frames[w].fails = frames[w].att
                /\ frames[w].att < RETRY_ATTEMPTS
    /\ pc = "sleep" => cur \in Wrapped /\ frames[cur].status = "sleeping"
    /\ (err = <<>> \/ pc = "aborted") => \A w \in Wrapped : frames[w].status # "sleeping"
    /\ ev.op = "sleep" =>
          /\ ev.arg[2] = RETRY_WAIT
          /\ frames[ev.arg[1]].status = "running"
          /\ frames[ev.arg[1]].att >= 2
          /\ frames[ev.arg[1]].fails = frames[ev.arg[1]].att - 1
          /\ pc = BodyStart(ev.arg[1])

\* cluster discovery returned on its third attempt, after two waits
C18_Witness ==
    \E r \in Completed :
        r.w = "disc" /\ r.status = "returned" /\ r.inv = 3 /\ r.waits = 2

\* C19: in a run that ends in done every node pool visited has exactly one accepted
\* batch, none skipped and none accepted twice: no node pool has more than one.
C19_OneAcceptedBatchPerPool ==
    pc = "done" => \A k \in DOMAIN accepted : accepted[k] <= 1

\* What holds of the code in the case of C20, within one attempt of the orchestrator: a
\* batch is submitted for a node pool only after a resolution of that node pool
\* returned, with the values of that resolution, the most recent one: the first attempt
\* of an emission follows at once the return of get_node_pool_info at the same position,
\* a retried emission carries the same record, and no resolution goes on while an
\* emission is in progress; when a resolution gives up, the orchestrator's attempt ends
\* without an emission for that node pool.
C20_BatchAfterResolution ==
    /\ pc = "send_batch" =>
          /\ frames["send"].status = "running"
          /\ frames["pool"].status = "idle" /\ frames["ig"].status = "idle"
          /\ orch.node_pool_info # <<>>
          /\ PoolAt(orch.clusters_and_pools, orch.ci, orch.ni)
          /\ IF frames["send"].inv = 1
             THEN /\ ev.op \in {"get_node_pool", "list_instances"}
                  /\ ev.op = "get_node_pool" =>
                        ev.arg = NodePoolPath(CurProject, cfg.REGION, CurCluster, CurPool)
                  /\ \E r \in Completed :
                        r.w = "pool" /\ r.status = "returned" /\ r.ret = orch.node_pool_info
             ELSE ev.op = "sleep" /\ ev.arg[1] = "send"
    /\ frames["send"].status = "sleeping" =>
          ev.op = "send_batch" /\ orch.node_pool_info = <<ev.arg[3]>>
    /\ ev.op = "send_batch" => \A r \in Completed : r.w \in {"send", "orch"}
    /\ \A r \in Completed :
          (r.w = "pool" /\ r.status = "raised") =>
              /\ pc \in {"sleep", "aborted"}
              /\ ev.op \in {"get_node_pool", "list_instances", "split"}
              /\ frames["send"].status = "idle"
              /\ frames["orch"].status # "running"
              /\ orch.node_pool_info = <<>>

\* in the orchestrator's second attempt a node pool has just been resolved, on the
\* resolver's second attempt, and its batch is about to be submitted
C20_Witness ==
    /\ pc = "send_batch" /\ frames["send"].inv = 1
    /\ frames["orch"].att = 2
    /\ \E r \in Completed :
          /\ r.w = "pool" /\ r.status = "returned" /\ r.fails = 1
          /\ r.ret[1].current_node_count = 2

\* C20: a batch is submitted for a node pool only after a resolution of that node
\* pool returned, and no batch is ever submitted for a node pool whose resolution failed
\* after exhausting its retries.
C20_NoBatchAfterFailedResolution ==
    /\ pc = "send_batch" => orch.node_pool_info # <<>>
    /\ ev.op = "send_batch" =>
          \A k \in DOMAIN gave_up :
              k = <<ev.arg[2][1], ev.arg[2][3], ev.arg[2][4]>> => ~gave_up[k]

====
